---- MODULE Spec2Model ----
(***************************************************************************)
(* Model of the token-gated watch page, src/pages/watch/[playbackId].tsx.  *)
(*                                                                         *)
(* The page is one React function component.  Its hook state (useState,    *)
(* the router parameter, the wallet hook, the metadata query) is the state *)
(* of the model.  A state update marks the component dirty; the Render     *)
(* action is one render pass: it evaluates the memos with the state as it  *)
(* is at that moment, commits (mounting or unmounting the <video>), and    *)
(* then flushes the three effects in declaration order.  State written by  *)
(* an effect (setGateState, setVideoSrc) is seen by the next render only.  *)
(* A pending render runs before the next wallet, router, query or promise  *)
(* callback is delivered.                                                  *)
(* The promises the effects create (connect, the gating chain) settle in   *)
(* actions of their own.                                                   *)
(***************************************************************************)
EXTENDS Integers, Sequences, FiniteSets, TLC

VARIABLES
    playbackId,          \* router.query.playbackId?.toString()
    address,             \* useAccount().address
    litConnected,        \* useState(false)
    gatingError,         \* useState<string>()
    gateState,           \* useState<"open" | "closed" | "checking">()
    playbackInfoStatus,  \* usePlaybackInfo().status
    playbackInfo,        \* usePlaybackInfo().data
    videoSrc,            \* useState<string>()
    videoElm,            \* videoElm.current: 0 is null, 1 is the mounted <video>
    hlsSupported,        \* isHlsSupported() of this browser
    dirty,               \* a state update is waiting for its render
    lastGateDeps,        \* dependency array of the gating effect at its last run
    lastMediaDeps,       \* dependency array of the media effect at its last run
    chains,              \* the gating chains started so far, in start order
    connectCalls,        \* litNodeClient.connect() calls made (one per render)
    connectPending,      \* connect() promises not yet settled
    alerts,              \* alert() dialogs shown
    elmInits,            \* initializations performed on the mounted element
    hlsPlayers,          \* HLS players created on the mounted element, in order
    view,                \* the branch of lines 184-206 the last render showed
    gateWriter,          \* who wrote gateState last: 0 the effect, i the i-th chain
    gens                 \* metadata objects delivered by the query so far

vars == <<playbackId, address, litConnected, gatingError, gateState,
          playbackInfoStatus, playbackInfo, videoSrc, videoElm, hlsSupported,
          dirty, lastGateDeps, lastMediaDeps, chains, connectCalls,
          connectPending, alerts, elmInits, hlsPlayers, view, gateWriter, gens>>

hookVars  == <<playbackId, address, playbackInfoStatus, playbackInfo, gens>>
gateVars  == <<gatingError, gateState, gateWriter>>
mediaVars == <<videoSrc, videoElm, elmInits, hlsPlayers, view, lastMediaDeps>>
litVars   == <<litConnected, connectCalls, connectPending, alerts>>

----------------------------------------------------------------------------
(* Bounds of the exploration *)

MaxRenders == 5
MaxChains == 2
MaxFetches == 2

----------------------------------------------------------------------------
(* Values *)

Undefined == "undefined"
Gated == "lit_signing_condition"
PolicyTypes == {Gated, "public"}
Ids == {"idA", "idB"}
Addresses == {"0xA1", "0xA2"}
GatePrefix == "You are not allowed to view this content. Gate error: "

NoInfo == [gen |-> 0, type |-> Undefined, urlOk |-> FALSE, pid |-> Undefined]

\* playbackInfo?.meta?.playbackPolicy ?? {}  -> type
PolicyType(info) == info.type

\* playbackUrl memo: a fresh URL object per playbackInfo object, null (0)
\* when the source list has no HLS entry or new URL() throws.
PlaybackUrl(info) == IF info.gen # 0 /\ info.urlOk THEN info.gen ELSE 0

\* playbackUrl.toString()
UrlString(info) == "https://cdn/hls/" \o info.pid \o "/index.m3u8"

Truthy(v) == v = "true"

\* ReadyToPlay without the leading address test
ReadyToPlay_NoAddress(addr, status, type, gate) ==
    IF status # "success" THEN "false"
    ELSE IF type # Gated \/ gate = "open" THEN "true" ELSE "false"

\* address && status === "success" && (type !== gated || gateState === "open")
ReadyToPlay(addr, status, type, gate) ==
    IF addr = Undefined THEN Undefined
    ELSE IF status # "success" THEN "false"
    ELSE IF type # Gated \/ gate = "open" THEN "true" ELSE "false"

\* GateEffect without the litConnected test of line 75
GateEffect_IgnoresLit(status, type, addr, lit, url) ==
    IF status # "success" THEN [set |-> Undefined, start |-> FALSE]
    ELSE IF type # Gated THEN [set |-> "open", start |-> FALSE]
    ELSE [set |-> "checking", start |-> addr # Undefined /\ url # 0]

\* GateEffect without the return of line 71
GateEffect_NoReturn(status, type, addr, lit, url) ==
    IF status # "success" THEN [set |-> Undefined, start |-> FALSE]
    ELSE [set |-> "checking", start |-> addr # Undefined /\ lit /\ url # 0]

\* GateEffect without the status guard of line 65
GateEffect_NoStatusGuard(status, type, addr, lit, url) ==
    IF type # Gated THEN [set |-> "open", start |-> FALSE]
    ELSE IF addr = Undefined \/ ~lit \/ url = 0
         THEN [set |-> "checking", start |-> FALSE]
         ELSE [set |-> "checking", start |-> TRUE]

\* GateEffect without the address test of line 75
GateEffect_IgnoresAddress(status, type, addr, lit, url) ==
    IF status # "success" THEN [set |-> Undefined, start |-> FALSE]
    ELSE IF type # Gated THEN [set |-> "open", start |-> FALSE]
    ELSE [set |-> "checking", start |-> lit /\ url # 0]

\* The gating effect body up to the start of the chain: the gate state it
\* sets (Undefined: none) and whether it starts a chain.
GateEffect(status, type, addr, lit, url) ==
    IF status # "success" THEN [set |-> Undefined, start |-> FALSE]
    ELSE IF type # Gated THEN [set |-> "open", start |-> FALSE]
    ELSE IF addr = Undefined \/ ~lit \/ url = 0
         THEN [set |-> "checking", start |-> FALSE]
         ELSE [set |-> "checking", start |-> TRUE]

\* if (!playbackUrl || !readyToPlay || !videoElm.current) return
MediaGuard(url, rtp, elm) == url # 0 /\ Truthy(rtp) /\ elm # 0

\* InitMode with the test of line 144 inverted
InitMode_Inverted(hls) == IF hls THEN "native" ELSE "hls"

\* if (!isHlsSupported()) setVideoSrc(...) else createNewHls(...)
InitMode(hls) == IF ~hls THEN "native" ELSE "hls"

\* createNewHls(playbackUrl.toString(), videoElm.current, {}, { xhrSetup })
CreateNewHls(src, elm) == [src |-> src, elm |-> elm, withCredentials |-> TRUE]

\* the JSX of lines 184-206: which branch is shown
View(rtp, gerr, status, addr) ==
    IF Truthy(rtp) THEN "video"
    ELSE IF gerr # Undefined THEN "gatingError"
    ELSE IF status = "error" THEN "pinfoError"
    ELSE IF addr = Undefined THEN "connect"
    ELSE "checking"

----------------------------------------------------------------------------
(* Errors and the message of the catch block *)

JsError(m) == [kind |-> "Error", message |-> m]
ThrownUndefined == [kind |-> Undefined, message |-> ""]

\* new Error(x): x undefined gives the empty message
NewError(x) == IF x = Undefined THEN JsError("") ELSE JsError(x)

\* const msg = err?.message || err, then `${msg}`
CatchMsg(err) ==
    IF err.kind = "Error"
    THEN IF err.message # "" THEN err.message ELSE "Error"
    ELSE Undefined

\* `You are not allowed to view this content. Gate error: ${msg}`
GateErrorText(err) == GatePrefix \o CatchMsg(err)

SignErrors == {JsError("User rejected the request"), ThrownUndefined}
TokenErrors == {JsError("not_authorized")}
FetchErrors == {JsError("Failed to fetch")}
ParseErrors == {JsError("Unexpected token < in JSON")}

\* Bodies of a non-2xx answer: JSON with an errors array, JSON without one,
\* or a body res.json() cannot parse.
Unparsable == [parses |-> FALSE, has |-> FALSE, errors |-> <<>>]
Bodies == { [parses |-> TRUE, has |-> TRUE, errors |-> <<"token expired">>],
            [parses |-> TRUE, has |-> TRUE, errors |-> <<"bad jwt", "token expired">>],
            [parses |-> TRUE, has |-> TRUE, errors |-> <<"">>],
            [parses |-> TRUE, has |-> TRUE, errors |-> <<>>],
            [parses |-> TRUE, has |-> FALSE, errors |-> <<>>],
            Unparsable }

\* ThrownForBody taking the last reported error instead of the first
ThrownForBody_Last(body) ==
    IF ~body.has
    THEN JsError("Cannot read properties of undefined (reading '0')")
    ELSE IF body.errors = <<>> THEN NewError(Undefined)
    ELSE NewError(body.errors[Len(body.errors)])

\* const { errors } = body; throw new Error(errors[0])
ThrownForBody(body) ==
    IF ~body.has
    THEN JsError("Cannot read properties of undefined (reading '0')")
    ELSE IF body.errors = <<>> THEN NewError(Undefined)
    ELSE NewError(body.errors[1])

----------------------------------------------------------------------------
(* Gating chains *)

Last(s) == s[Len(s)]
Pc(c) == Last(c.hist)
InFlight(c) == Pc(c) \notin {"open", "closed"}
Count(h, e) == Cardinality({k \in 1..Len(h) : h[k] = e})

\* Promise.resolve().then(async () => { ... checkAndSignAuthMessage(...)
NewChain(pid, gen) ==
    [pid |-> pid, gen |-> gen, superseded |-> FALSE, body |-> Unparsable,
     hist |-> <<"signReq">>]

\* A new run of the gating effect cancelling the chains in flight
Supersede_Abort(cs) == SelectSeq(cs, LAMBDA c : ~InFlight(c))

\* The effect returns no cleanup: a new run keeps the chains in flight (they
\* are only marked as started by an older run).
Supersede(cs) ==
    [i \in 1..Len(cs) |->
        IF InFlight(cs[i]) THEN [cs[i] EXCEPT !.superseded = TRUE] ELSE cs[i]]

Step(i, evs) == [chains EXCEPT ![i].hist = @ \o evs]

----------------------------------------------------------------------------
Init ==
    /\ playbackId \in Ids \cup {Undefined}
    /\ address \in Addresses \cup {Undefined}
    /\ litConnected = FALSE
    /\ gatingError = Undefined
    /\ gateState = Undefined
    /\ \/ /\ playbackInfoStatus = IF playbackId = Undefined THEN "idle" ELSE "loading"
          /\ playbackInfo = NoInfo
       \/ /\ playbackId # Undefined      \* the query cache already has it
          /\ playbackInfoStatus = "success"
          /\ \E t \in PolicyTypes, u \in BOOLEAN :
                playbackInfo = [gen |-> 1, type |-> t, urlOk |-> u, pid |-> playbackId]
    /\ gens = playbackInfo.gen
    /\ videoSrc = Undefined
    /\ videoElm = 0
    /\ hlsSupported \in BOOLEAN
    /\ dirty = TRUE                       \* the mount render is due
    /\ lastGateDeps = <<>>
    /\ lastMediaDeps = <<>>
    /\ chains = <<>>
    /\ connectCalls = 0
    /\ connectPending = 0
    /\ alerts = 0
    /\ elmInits = 0
    /\ hlsPlayers = <<>>
    /\ view = "none"                      \* nothing rendered yet
    /\ gateWriter = 0

----------------------------------------------------------------------------
(* One render pass: render, commit, then the effects in declaration order *)

NoEffect == [set |-> Undefined, start |-> FALSE]

Render ==
    /\ dirty
    /\ connectCalls < MaxRenders
    /\ LET type  == PolicyType(playbackInfo)
           url   == PlaybackUrl(playbackInfo)
           rtp   == ReadyToPlay(address, playbackInfoStatus, type, gateState)
           elm   == IF Truthy(rtp) THEN 1 ELSE 0     \* <video ref={videoElm}>
           kept  == elm = 1 /\ videoElm = 1
           gdeps == <<address, litConnected, playbackInfoStatus,
                      playbackInfo.gen, playbackId, url>>
           g     == IF gdeps # lastGateDeps
                    THEN GateEffect(playbackInfoStatus, type, address,
                                    litConnected, url)
                    ELSE NoEffect
           mdeps == <<url, rtp>>
           init  == mdeps # lastMediaDeps /\ MediaGuard(url, rtp, elm)
           n     == IF init THEN 1 ELSE 0
           mode  == InitMode(hlsSupported)
       IN  /\ g.start => Len(chains) < MaxChains
           \* effect 1 (no dependency array): litNodeClient.connect()
           /\ connectCalls' = connectCalls + 1
           /\ connectPending' = connectPending + 1
           \* effect 2: the gating effect
           /\ gateState' = IF g.set # Undefined THEN g.set ELSE gateState
           /\ gateWriter' = IF g.set # Undefined THEN 0 ELSE gateWriter
           /\ chains' = IF g.set = Undefined THEN chains
                        ELSE IF g.start
                             THEN Append(Supersede(chains),
                                         NewChain(playbackId, playbackInfo.gen))
                             ELSE Supersede(chains)
           /\ lastGateDeps' = gdeps
           \* effect 3: the media-initialization effect
           /\ videoElm' = elm
           /\ elmInits' = (IF kept THEN elmInits ELSE 0) + n
           /\ hlsPlayers' = (IF kept THEN hlsPlayers ELSE <<>>)
                               \o (IF init /\ mode = "hls"
                                   THEN <<CreateNewHls(UrlString(playbackInfo), elm)>>
                                   ELSE <<>>)
           /\ videoSrc' = IF init /\ mode = "native"
                          THEN UrlString(playbackInfo) ELSE videoSrc
           /\ view' = View(rtp, gatingError, playbackInfoStatus, address)
           /\ lastMediaDeps' = mdeps
           /\ dirty' = (gateState' # gateState \/ videoSrc' # videoSrc)
    /\ UNCHANGED <<hookVars, litConnected, alerts, gatingError, hlsSupported>>

----------------------------------------------------------------------------
(* The hooks the page reads: wallet, router, metadata query *)

SetAddress(a) ==
    /\ ~dirty
    /\ a # address
    /\ address' = a
    /\ dirty' = TRUE
    /\ UNCHANGED <<playbackId, playbackInfoStatus, playbackInfo, gens, gateVars,
                   mediaVars, litVars, hlsSupported, lastGateDeps, chains>>

RouteChange(p) ==
    /\ ~dirty
    /\ p # playbackId
    /\ playbackId' = p
    /\ playbackInfoStatus' = IF p = Undefined THEN "idle" ELSE "loading"
    /\ playbackInfo' = NoInfo
    /\ dirty' = TRUE
    /\ UNCHANGED <<address, gens, gateVars, mediaVars, litVars, hlsSupported,
                   lastGateDeps, chains>>

Deliver(t, u) ==
    /\ ~dirty
    /\ gens < MaxFetches
    /\ gens' = gens + 1
    /\ playbackInfo' = [gen |-> gens + 1, type |-> t, urlOk |-> u, pid |-> playbackId]
    /\ playbackInfoStatus' = "success"
    /\ dirty' = TRUE
    /\ UNCHANGED <<playbackId, address, gateVars, mediaVars, litVars,
                   hlsSupported, lastGateDeps, chains>>

FetchSuccess(t, u) == playbackInfoStatus = "loading" /\ Deliver(t, u)

Refetch(t, u) == playbackInfoStatus = "success" /\ Deliver(t, u)

FetchError ==
    /\ ~dirty
    /\ playbackInfoStatus = "loading"
    /\ playbackInfoStatus' = "error"
    /\ dirty' = TRUE
    /\ UNCHANGED <<playbackId, address, playbackInfo, gens, gateVars, mediaVars,
                   litVars, hlsSupported, lastGateDeps, chains>>

----------------------------------------------------------------------------
(* litNodeClient.connect().then(...).catch(...) *)

ConnectResolve ==
    /\ ~dirty
    /\ connectPending > 0
    /\ connectPending' = connectPending - 1
    /\ litConnected' = TRUE                 \* setIsLitConnected(true)
    /\ dirty' = (dirty \/ ~litConnected)
    /\ UNCHANGED <<hookVars, gateVars, mediaVars, hlsSupported, lastGateDeps,
                   chains, connectCalls, alerts>>

\* a catch handler that goes on as if connected
AfterConnectFailure_Connected(lit) == TRUE

\* what the catch handler of a failed connect leaves in litConnected
AfterConnectFailure(lit) == lit

ConnectReject ==
    /\ ~dirty
    /\ connectPending > 0
    /\ connectPending' = connectPending - 1
    /\ alerts' = alerts + 1                 \* alert("Failed connecting ...")
    /\ litConnected' = AfterConnectFailure(litConnected)
    /\ dirty' = (dirty \/ litConnected' # litConnected)
    /\ UNCHANGED <<hookVars, gateVars, mediaVars, hlsSupported, lastGateDeps,
                   chains, connectCalls>>

----------------------------------------------------------------------------
(* The steps of a gating chain *)

chainFrame == <<hookVars, mediaVars, litVars, hlsSupported, lastGateDeps>>

Awaiting(i, ev) == ~dirty /\ i \in 1..Len(chains) /\ Pc(chains[i]) = ev

\* a catch block that records the error but leaves the gate as it is
Caught_GateUntouched(err) == [gate |-> "checking", error |-> GateErrorText(err)]

\* catch (err) { setGatingError(...); setGateState("closed") }
Caught(err) == [gate |-> "closed", error |-> GateErrorText(err)]

Fail(i, ev, err) ==
    /\ chains' = Step(i, <<ev, Caught(err).gate>>)
    /\ gatingError' = Caught(err).error
    /\ gateState' = Caught(err).gate
    /\ gateWriter' = i
    /\ dirty' = (dirty \/ gatingError' # gatingError \/ gateState' # gateState)
    /\ UNCHANGED chainFrame

Advance(i, evs) ==
    /\ chains' = Step(i, evs)
    /\ UNCHANGED <<chainFrame, gateVars, dirty>>

SignResolve(i) == Awaiting(i, "signReq") /\ Advance(i, <<"signOk", "tokenReq">>)

\* a rejected signature that does not leave the try block
SignReject_Continues(i, e) ==
    Awaiting(i, "signReq") /\ Advance(i, <<"signErr", "tokenReq">>)

SignReject(i, e) == Awaiting(i, "signReq") /\ Fail(i, "signErr", e)

TokenResolve(i) == Awaiting(i, "tokenReq") /\ Advance(i, <<"tokenOk", "verifyReq">>)

TokenReject(i, e) == Awaiting(i, "tokenReq") /\ Fail(i, "tokenErr", e)

\* a 2xx answer that ends the chain without setGateState("open")
VerifyOk_NoWrite(i) ==
    /\ Awaiting(i, "verifyReq")
    /\ chains' = Step(i, <<"verify2xx", "open">>)
    /\ UNCHANGED <<chainFrame, gateVars, dirty>>

\* res.ok: setGateState("open")
VerifyOk(i) ==
    /\ Awaiting(i, "verifyReq")
    /\ chains' = Step(i, <<"verify2xx", "open">>)
    /\ gateState' = "open"
    /\ gateWriter' = i
    /\ dirty' = (dirty \/ gateState # "open")
    /\ UNCHANGED <<chainFrame, gatingError>>

\* !res.ok: await res.json()
VerifyNotOk(i, b) ==
    /\ Awaiting(i, "verifyReq")
    /\ chains' = [chains EXCEPT ![i].hist = @ \o <<"verifyNon2xx">>, ![i].body = b]
    /\ UNCHANGED <<chainFrame, gateVars, dirty>>

VerifyReject(i, e) == Awaiting(i, "verifyReq") /\ Fail(i, "verifyErr", e)

JsonResolve(i) ==
    /\ Awaiting(i, "verifyNon2xx")
    /\ chains[i].body.parses
    /\ Fail(i, "jsonOk", ThrownForBody(chains[i].body))

JsonReject(i, e) ==
    /\ Awaiting(i, "verifyNon2xx")
    /\ ~chains[i].body.parses
    /\ Fail(i, "jsonErr", e)

----------------------------------------------------------------------------
Next ==
    \/ Render
    \/ \E a \in Addresses \cup {Undefined} : SetAddress(a)
    \/ \E p \in Ids \cup {Undefined} : RouteChange(p)
    \/ \E t \in PolicyTypes, u \in BOOLEAN : FetchSuccess(t, u)
    \/ \E t \in PolicyTypes, u \in BOOLEAN : Refetch(t, u)
    \/ FetchError
    \/ ConnectResolve
    \/ ConnectReject
    \/ \E i \in 1..MaxChains : SignResolve(i)
    \/ \E i \in 1..MaxChains, e \in SignErrors : SignReject(i, e)
    \/ \E i \in 1..MaxChains : TokenResolve(i)
    \/ \E i \in 1..MaxChains, e \in TokenErrors : TokenReject(i, e)
    \/ \E i \in 1..MaxChains : VerifyOk(i)
    \/ \E i \in 1..MaxChains, b \in Bodies : VerifyNotOk(i, b)
    \/ \E i \in 1..MaxChains, e \in FetchErrors : VerifyReject(i, e)
    \/ \E i \in 1..MaxChains : JsonResolve(i)
    \/ \E i \in 1..MaxChains, e \in ParseErrors : JsonReject(i, e)

Spec == Init /\ [][Next]_vars

\* Some await of chain i settles
ChainStep(i) ==
    \/ SignResolve(i)
    \/ \E e \in SignErrors : SignReject(i, e)
    \/ TokenResolve(i)
    \/ \E e \in TokenErrors : TokenReject(i, e)
    \/ VerifyOk(i)
    \/ \E b \in Bodies : VerifyNotOk(i, b)
    \/ \E e \in FetchErrors : VerifyReject(i, e)
    \/ JsonResolve(i)
    \/ \E e \in ParseErrors : JsonReject(i, e)

\* The page is opened on gated content whose metadata is cached, with the
\* wallet connected.
LiveInit ==
    /\ Init
    /\ playbackId = "idA"
    /\ address = "0xA1"
    /\ hlsSupported
    /\ playbackInfo = [gen |-> 1, type |-> Gated, urlOk |-> TRUE, pid |-> "idA"]

\* A pending render is run, and every external call of a chain settles.
LiveSpec ==
    /\ LiveInit /\ [][Next]_vars
    /\ WF_vars(Render)
    /\ \A i \in 1..MaxChains : WF_vars(ChainStep(i))

----------------------------------------------------------------------------
(* Vocabulary of the properties *)

ChainIds == 1..Len(chains)
RequestEvents == {"signReq", "tokenReq", "verifyReq"}
Requests(c) == Cardinality({k \in 1..Len(c.hist) : c.hist[k] \in RequestEvents})
ErrorEvents == {"signErr", "tokenErr", "verifyErr", "jsonErr", "jsonOk"}
Has(c, e) == \E k \in 1..Len(c.hist) : c.hist[k] = e

\* this step ran the gating effect / performed a media initialization
GateEffectRan == lastGateDeps' # lastGateDeps
MediaInitialized == elmInits' > elmInits

\* the preconditions of line 75, with the policy of lines 65-69
GatedAndReady ==
    /\ playbackInfoStatus = "success"
    /\ PolicyType(playbackInfo) = Gated
    /\ address # Undefined
    /\ litConnected
    /\ PlaybackUrl(playbackInfo) # 0

\* this step sent no request of a gating chain
NoChainRequest ==
    /\ Len(chains') = Len(chains)
    /\ \A i \in ChainIds : Requests(chains'[i]) = Requests(chains[i])

\* chain i ended in this step
Ended(i) == InFlight(chains[i]) /\ i \in 1..Len(chains') /\ ~InFlight(chains'[i])

----------------------------------------------------------------------------
\* C1: whenever the media-initialization effect initializes playback
\* (setVideoSrc or createNewHls), the gate state is "open" at that moment,
\* i.e. "open" is the value the gate state holds when the effects of that
\* render pass have run.
C1_InitOnlyWhenOpen == [][MediaInitialized => gateState' = "open"]_vars

----------------------------------------------------------------------------
\* C2 (as stated): for every content identifier at most one token-exchange
\* request (getSignedToken) is sent over the whole run.
C2_OneTokenRequestPerContent ==
    \A p \in Ids :
        Cardinality({i \in ChainIds : chains[i].pid = p /\ Has(chains[i], "tokenReq")}) <= 1

\* C2 (amended): a step starts a gating chain exactly when it runs the gating
\* effect with the gated policy and all preconditions met, it then starts
\* exactly one, for the current playback identifier; and every chain sends at
\* most one token-exchange request, exactly one once its signature is there.
C2_OneTokenRequestPerRun ==
    /\ [][/\ (GateEffectRan /\ GatedAndReady) => Len(chains') = Len(chains) + 1
          /\ Len(chains') # Len(chains) =>
                /\ GateEffectRan /\ GatedAndReady
                /\ Len(chains') = Len(chains) + 1
                /\ chains'[Len(chains')].pid = playbackId
                /\ chains'[Len(chains')].hist = <<"signReq">>]_vars
    /\ [](\A i \in ChainIds :
            /\ Count(chains[i].hist, "tokenReq") <= 1
            /\ Has(chains[i], "signOk") <=> Has(chains[i], "tokenReq"))

C2_Witness ==
    \E i, j \in ChainIds :
        /\ i # j /\ chains[i].pid = chains[j].pid
        /\ Has(chains[i], "tokenReq") /\ Has(chains[j], "tokenReq")

----------------------------------------------------------------------------
\* C3: when the verification POST returned a non-2xx response, the chain
\* ends with gate state "closed" and never "open"; when the body is the JSON
\* the endpoint promises, with a first reported error message errors[0], the
\* gating error is the message built from errors[0].
ReportsError(b) ==
    b.parses /\ b.has /\ Len(b.errors) > 0 /\ b.errors # <<"">>

C3_Non2xxCloses ==
    [][\A i \in ChainIds :
          (Has(chains[i], "verifyNon2xx") /\ Ended(i)) =>
             /\ gateState' = "closed"
             /\ Pc(chains'[i]) = "closed"
             /\ ~Has(chains'[i], "open")
             /\ ReportsError(chains[i].body) =>
                   gatingError' = GatePrefix \o chains[i].body.errors[1]]_vars

C3_Witness ==
    \E i \in ChainIds :
        /\ Has(chains[i], "verifyNon2xx") /\ Pc(chains[i]) = "closed"
        /\ chains[i].body.errors = <<"bad jwt", "token expired">>
        /\ gateWriter = i /\ gateState = "closed"
        /\ gatingError = GatePrefix \o "bad jwt"

----------------------------------------------------------------------------
\* C4 (as stated): a run of the gating effect with metadata status success
\* and a policy that is not the gated type sets gate state "open" and comes
\* with no network call at all: no request of a gating chain and no request
\* to the access-control network.
C4_UngatedNoNetworkCall ==
    [][(GateEffectRan /\ playbackInfoStatus = "success"
            /\ PolicyType(playbackInfo) # Gated) =>
          /\ gateState' = "open"
          /\ NoChainRequest
          /\ connectCalls' = connectCalls]_vars

\* C4 (amended): such a run sets gate state "open" and sends no wallet
\* signature request, no token-exchange request and no verification POST.
C4_UngatedNoChainRequest ==
    [][(GateEffectRan /\ playbackInfoStatus = "success"
            /\ PolicyType(playbackInfo) # Gated) =>
          /\ gateState' = "open"
          /\ NoChainRequest]_vars

C4_Witness ==
    /\ playbackInfoStatus = "success" /\ PolicyType(playbackInfo) # Gated
    /\ lastGateDeps = <<address, litConnected, playbackInfoStatus,
                        playbackInfo.gen, playbackId, PlaybackUrl(playbackInfo)>>
    /\ gateState = "open" /\ gateWriter = 0
    /\ litConnected /\ address # Undefined

----------------------------------------------------------------------------
\* C5: at most one gating chain is in flight at any time.
C5_OneChainInFlight ==
    Cardinality({i \in ChainIds : InFlight(chains[i])}) <= 1

----------------------------------------------------------------------------
\* C6: the mounted video element is initialized at most once.
C6_InitializedOnce == elmInits <= 1

----------------------------------------------------------------------------
\* C7: every failure inside a started chain is caught: in the step of the
\* failure the chain ends, gate state becomes "closed" and the gating error
\* is one string beginning with the fixed prefix; no chain that met a failure
\* is left unfinished.
C7_FailuresCaught ==
    /\ [][\A i \in ChainIds :
            (\E e \in ErrorEvents : ~Has(chains[i], e) /\ Has(chains'[i], e)) =>
               /\ Pc(chains'[i]) = "closed"
               /\ gateState' = "closed"
               /\ Len(gatingError') > Len(GatePrefix)
               /\ SubSeq(gatingError', 1, Len(GatePrefix)) = GatePrefix]_vars
    /\ [](\A i \in ChainIds :
            (\E e \in ErrorEvents : Has(chains[i], e)) => Pc(chains[i]) = "closed")

C7_Witness ==
    \E i \in ChainIds :
        /\ Has(chains[i], "jsonErr") /\ Pc(chains[i]) = "closed"
        /\ gateWriter = i /\ gateState = "closed"
        /\ gatingError = GatePrefix \o "Unexpected token < in JSON"

----------------------------------------------------------------------------
\* C8: litNodeClient.connect() is called at most once per page load.
C8_ConnectOnce == connectCalls <= 1

----------------------------------------------------------------------------
\* C9: a failed connection attempt shows an alert and leaves litConnected,
\* gate state and gating error as they were; litConnected becomes true only
\* in a step that settles an attempt without an alert.
C9_ConnectFailureAlerts ==
    [][/\ alerts' # alerts =>
             /\ alerts' = alerts + 1
             /\ connectPending' = connectPending - 1
             /\ litConnected' = litConnected
             /\ gateState' = gateState
             /\ gatingError' = gatingError
       /\ litConnected' # litConnected =>
             /\ litConnected'
             /\ connectPending' = connectPending - 1
             /\ alerts' = alerts
       /\ (connectPending' < connectPending /\ ~litConnected') =>
             alerts' = alerts + 1]_vars

C9_Witness == alerts > 0 /\ ~litConnected /\ gateState = "checking"

----------------------------------------------------------------------------
\* C10: no step aborts a chain in flight: every chain in flight is still
\* there after the step with its history kept or extended; and a chain that
\* ends writes its outcome to the gate state (and the gating error when the
\* outcome is "closed"), also after a newer run of the gating effect.
IsPrefix(h, g) == Len(h) <= Len(g) /\ SubSeq(g, 1, Len(h)) = h

C10_NoCancellation ==
    [][\A i \in ChainIds :
          InFlight(chains[i]) =>
             /\ i \in 1..Len(chains')
             /\ chains'[i].pid = chains[i].pid
             /\ IsPrefix(chains[i].hist, chains'[i].hist)
             /\ Ended(i) =>
                   /\ gateState' = Pc(chains'[i])
                   /\ gateWriter' = i
                   /\ Pc(chains'[i]) = "closed" =>
                          SubSeq(gatingError', 1, Len(GatePrefix)) = GatePrefix]_vars

C10_Witness ==
    \E i \in ChainIds :
        /\ chains[i].superseded /\ ~InFlight(chains[i])
        /\ gateWriter = i /\ gateState = Pc(chains[i])
        /\ playbackInfo.gen # chains[i].gen

----------------------------------------------------------------------------
\* C11: an initialization does exactly one of two things, chosen by
\* isHlsSupported(): when it is false it sets the video src to the playback
\* URL and creates no HLS player; when it is true it creates one HLS player
\* for the playback URL, bound to the mounted element, with credentialed
\* requests, and leaves the src state as it was.
C11_OneModePerInit ==
    [][MediaInitialized =>
          IF hlsSupported
          THEN /\ Len(hlsPlayers') =
                     (IF videoElm = 1 THEN Len(hlsPlayers) ELSE 0) + 1
               /\ Last(hlsPlayers') = [src |-> UrlString(playbackInfo),
                                       elm |-> videoElm',
                                       withCredentials |-> TRUE]
               /\ videoElm' # 0
               /\ videoSrc' = videoSrc
          ELSE /\ videoSrc' = UrlString(playbackInfo)
               /\ hlsPlayers' = <<>>]_vars

C11_Witness ==
    /\ hlsSupported /\ elmInits = 1 /\ Len(hlsPlayers) = 1
    /\ hlsPlayers[1].src = UrlString(playbackInfo)
    /\ videoSrc = Undefined /\ videoElm = 1

----------------------------------------------------------------------------
\* C12: in every chain the token-exchange request follows the obtained
\* signature, the verification POST follows the obtained token, "open"
\* follows a 2xx answer of the POST, and a failure is followed by "closed"
\* and nothing else.
Ordered(h) ==
    /\ h[1] = "signReq"
    /\ \A k \in 2..Len(h) :
          /\ h[k] = "signOk" => h[k-1] = "signReq"
          /\ h[k] = "tokenReq" => h[k-1] = "signOk"
          /\ h[k] = "tokenOk" => h[k-1] = "tokenReq"
          /\ h[k] = "verifyReq" => h[k-1] = "tokenOk"
          /\ h[k] \in {"verify2xx", "verifyNon2xx"} => h[k-1] = "verifyReq"
          /\ h[k] = "open" => h[k-1] = "verify2xx"
          /\ h[k] = "closed" => h[k-1] \in ErrorEvents
          /\ h[k-1] \in ErrorEvents => (h[k] = "closed" /\ k = Len(h))
          /\ h[k] # "signReq"

C12_StepsOrdered == \A i \in ChainIds : Ordered(chains[i].hist)

C12_Witness ==
    \E i \in ChainIds :
        /\ chains[i].hist = <<"signReq", "signOk", "tokenReq", "tokenOk",
                              "verifyReq", "verify2xx", "open">>
        /\ gateWriter = i /\ gateState = "open"

----------------------------------------------------------------------------
\* C13: a run of the gating effect while metadata status is not "success"
\* leaves gate state and gating error unchanged and starts no chain; as long
\* as no metadata was ever delivered, gate state is unset and no chain exists.
C13_NoSuccessNoChange ==
    /\ [][(GateEffectRan /\ playbackInfoStatus # "success") =>
             /\ gateState' = gateState
             /\ gatingError' = gatingError
             /\ NoChainRequest]_vars
    /\ [](gens = 0 => (gateState = Undefined /\ chains = <<>>))

C13_Witness ==
    /\ lastGateDeps # <<>> /\ lastGateDeps[3] = "loading"
    /\ playbackInfoStatus = "loading" /\ ~dirty
    /\ gateState = "open"

----------------------------------------------------------------------------
\* C14: a run of the gating effect for gated content with a precondition
\* missing (no address, network not connected, or no valid playback URL)
\* sets gate state "checking" and sends no request of a gating chain.
PreconditionMissing ==
    address = Undefined \/ ~litConnected \/ PlaybackUrl(playbackInfo) = 0

C14_NotReadyOnlyChecking ==
    [][(GateEffectRan /\ playbackInfoStatus = "success"
            /\ PolicyType(playbackInfo) = Gated /\ PreconditionMissing) =>
          /\ gateState' = "checking"
          /\ NoChainRequest]_vars

C14_Witness ==
    /\ playbackInfoStatus = "success" /\ PolicyType(playbackInfo) = Gated
    /\ address = Undefined /\ litConnected /\ PlaybackUrl(playbackInfo) # 0
    /\ lastGateDeps = <<address, litConnected, playbackInfoStatus,
                        playbackInfo.gen, playbackId, PlaybackUrl(playbackInfo)>>
    /\ gateState = "checking" /\ chains = <<>>

----------------------------------------------------------------------------
\* C15: whenever gate state is "open" while the content of the route is
\* gated and its metadata is loaded, a verification POST for that same
\* playback identifier has returned a 2xx response.
VerifiedFor(p) ==
    \E i \in ChainIds : chains[i].pid = p /\ Has(chains[i], "verify2xx")

C15_OpenOnlyIfVerified ==
    (gateState = "open" /\ playbackInfoStatus = "success"
        /\ PolicyType(playbackInfo) = Gated) => VerifiedFor(playbackId)

----------------------------------------------------------------------------
\* C17: without a connected wallet address playback is never initialized and
\* no render shows the video element, for gated and ungated content alike;
\* the render that follows a disconnect computes a falsy readyToPlay and
\* unmounts the video.
Rendered == connectCalls' # connectCalls

C17_NoAddressNoVideo ==
    /\ [][/\ MediaInitialized => address # Undefined
          /\ (Rendered /\ address = Undefined) =>
                /\ ~Truthy(lastMediaDeps'[2])
                /\ videoElm' = 0
                /\ view' # "video"]_vars
    /\ []((~dirty /\ address = Undefined) => (videoElm = 0 /\ view # "video"))

C17_Witness ==
    /\ address = Undefined /\ ~dirty
    /\ playbackInfoStatus = "success" /\ PolicyType(playbackInfo) # Gated
    /\ videoSrc = UrlString(playbackInfo)       \* playback had been initialized
    /\ lastMediaDeps = <<PlaybackUrl(playbackInfo), Undefined>>
    /\ videoElm = 0 /\ view = "connect"

----------------------------------------------------------------------------
\* C18: whenever the page shows the gating error message, gate state is
\* "closed".
C18_ErrorShownOnlyWhenClosed == view = "gatingError" => gateState = "closed"

----------------------------------------------------------------------------
\* C16: if the content stays gated with all preconditions met from some point
\* on, every pending render is run and every external call settles, then
\* from some point on gate state is "open" or "closed" for good.  (A run in
\* which the exploration bound stops a pending render is not a run of the
\* page and is left out.)
RenderRuns == dirty => ENABLED Render

C16_CheckingEnds ==
    ([]RenderRuns /\ <>[]GatedAndReady) => <>[](gateState \in {"open", "closed"})

C16_Witness ==
    /\ GatedAndReady /\ ~dirty
    /\ chains # <<>> /\ \A i \in ChainIds : ~InFlight(chains[i])
    /\ gateWriter = Len(chains)
    /\ gateState \in {"open", "closed"}

====
